---- MODULE Spec2Model ----
(***************************************************************************)
(* Model of the EduShare request handlers (src/app.py) over the four       *)
(* tables User, Folder, Resource, Review and the upload directory.         *)
(*                                                                         *)
(* The store is SQLite reached through SQLAlchemy: primary keys are rowid  *)
(* aliases (a new row gets max(id)+1, so an id is assigned again after the *)
(* row holding the largest id is deleted), UNIQUE constraints are enforced *)
(* by the store at INSERT, and FOREIGN KEY clauses are not enforced (the   *)
(* application never turns the foreign_keys pragma on).                    *)
(*                                                                         *)
(* Strings are sequences of one-character strings so that strip() and      *)
(* lower() are computed rather than assumed.  Columns that no handler      *)
(* branches on (names, titles, comments, timestamps, password hashes) are  *)
(* left out of the rows.  `resp` is the response of the last request that  *)
(* finished; `pending` holds the requests that have done their reads and   *)
(* not yet committed, in the specifications where requests overlap.        *)
(***************************************************************************)
EXTENDS Integers, Sequences, FiniteSets, TLC

VARIABLES users, folders, resources, reviews, files, pending, resp

vars == <<users, folders, resources, reviews, files, pending, resp>>

\* ---------------------------------------------------------------- bounds
\* the largest id a table hands out before the model stops inserting into it
MaxId == 2
\* the number of Folder, Resource and Review rows the store holds at most
MaxRows == 2
\* the number of requests that can be between their reads and their commit
MaxPending == 2

\* ------------------------------------------------------- values and inputs
\* Python None / SQL NULL / a form field that was not sent
None == -1
\* a form field sent as the empty string
Blank == -2

RawNames == {<<"a">>, <<" ", "a", " ">>, <<"A">>, <<" ">>}
RawEmails == {<<"x">>, <<"X", " ">>, <<" ", "y">>, <<>>}
RawPasswords == {<<"p">>, <<>>}
\* the accounts registered, in this order, where the claims are not about
\* registration
Accounts == <<[name |-> <<"a">>, email |-> <<"x">>], [name |-> <<"b">>, email |-> <<"y">>]>>
RawRatings == {-3, 3, 9, 15}
\* second-resolution timestamps a clock can return during an upload
Stamps == {"t1"}
ALLOWED_EXTENSIONS == {"pdf", "txt", "md", "zip", "mp4", "avi", "mkv", "mov", "doc", "docx", "ppt", "pptx", "xls", "xlsx", "csv", "png", "jpg", "jpeg", "gif", "webm", "webp"}

\* ------------------------------------------------------------ pure helpers
RECURSIVE LStrip(_)
LStrip(s) == IF s # <<>> /\ Head(s) = " " THEN LStrip(Tail(s)) ELSE s

RECURSIVE RStrip(_)
RStrip(s) == IF s # <<>> /\ s[Len(s)] = " " THEN RStrip(SubSeq(s, 1, Len(s) - 1)) ELSE s

\* str.strip()
Strip(s) == RStrip(LStrip(s))

LowerChar(c) ==
  CASE c = "A" -> "a"
    [] c = "B" -> "b"
    [] c = "X" -> "x"
    [] c = "Y" -> "y"
    [] c = "Z" -> "z"
    [] c = "PDF" -> "pdf"
    [] c = "EXE" -> "exe"
    [] OTHER -> c

\* str.lower()
Lower(s) == [i \in 1..Len(s) |-> LowerChar(s[i])]

SetMax(S) == CHOOSE m \in S : \A x \in S : x <= m

\* the rowid SQLite gives the next row of a table: max(id) + 1
NextId(rows) == IF rows = {} THEN 1 ELSE SetMax({x.id : x \in rows}) + 1

\* `value or None` applied to a form field
OrNone(v) == IF v = None \/ v = Blank THEN None ELSE v

\* room for one more row with the next id of `rows`
Room(rows) ==
  /\ NextId(rows) <= MaxId
  /\ Cardinality(folders) + Cardinality(resources) + Cardinality(reviews) < MaxRows

\* ---------------------------------------------------------------- responses
Reply(op, user, arg, val, status) ==
  [op |-> op, user |-> user, arg |-> arg, val |-> val, status |-> status,
   out |-> {}, res |-> {}, crumbs |-> <<>>]

Listing(op, user, arg, status, out, res, crumbs) ==
  [op |-> op, user |-> user, arg |-> arg, val |-> None, status |-> status,
   out |-> out, res |-> res, crumbs |-> crumbs]

\* @login_required: the requester is a stored user with a session
LoggedIn == {x.id : x \in users}

Init ==
  /\ users = {}
  /\ folders = {}
  /\ resources = {}
  /\ reviews = {}
  /\ files = {}
  /\ pending = {}
  /\ resp = Reply("none", None, None, None, "none")

\* ------------------------------------------------------------ Routes: Auth
\* the lookup with its email disjunct dropped
IdentityTakenByName(username, email) ==
  \E x \in users : x.username = username

\* User.query.filter((User.username == username) | (User.email == email)).first()
IdentityTaken(username, email) ==
  \E x \in users : x.username = username \/ x.email = email

\* unique=True on User.username and on User.email, checked by the store when
\* a row is inserted
UserUniqueViolation(username, email) ==
  \E x \in users : x.username = username \/ x.email = email

\* lines 95-103 of register: the outcome of the validation and of the lookup
RegisterCheck(rawName, rawEmail, password) ==
  IF Strip(rawName) = <<>> \/ Lower(Strip(rawEmail)) = <<>> \/ password = <<>>
    THEN "ValidationError"
    ELSE IF IdentityTaken(Strip(rawName), Lower(Strip(rawEmail)))
      THEN "DuplicateIdentity"
      ELSE "ok"

\* what a register request holds once its lookup found nobody
RegisterPlan(sid, rawName, rawEmail) ==
  [sid |-> sid, username |-> Strip(rawName), email |-> Lower(Strip(rawEmail))]

\* lines 104-109: db.session.add(user); db.session.commit()
CommitUser(plan) ==
  IF UserUniqueViolation(plan.username, plan.email)
    THEN \* IntegrityError, not caught by the handler
         /\ resp' = Reply("register", None, None, None, "IntegrityError")
         /\ UNCHANGED users
    ELSE /\ users' = users \cup {[id |-> NextId(users), username |-> plan.username,
                                  email |-> plan.email]}
         /\ resp' = Reply("register", None, NextId(users), None, "ok")

\* a request handled with no other request in between
Register(rawName, rawEmail, password) ==
  /\ IF RegisterCheck(rawName, rawEmail, password) # "ok"
       THEN /\ resp' = Reply("register", None, None, None, RegisterCheck(rawName, rawEmail, password))
            /\ UNCHANGED users
       ELSE CommitUser(RegisterPlan(0, rawName, rawEmail))
  /\ UNCHANGED <<folders, resources, reviews, files, pending>>

\* Requests run on separate connections; a SELECT holds no lock once it has
\* returned, so another request can commit between a request's reads and its
\* own commit.
FreeSlots == (1..MaxPending) \ {p.sid : p \in pending}

\* register up to its lookup
RegisterRead(sid, rawName, rawEmail, password) ==
  /\ sid \in FreeSlots
  /\ IF RegisterCheck(rawName, rawEmail, password) # "ok"
       THEN /\ resp' = Reply("register", None, None, None, RegisterCheck(rawName, rawEmail, password))
            /\ UNCHANGED pending
       ELSE /\ pending' = pending \cup {RegisterPlan(sid, rawName, rawEmail)}
            /\ UNCHANGED resp
  /\ UNCHANGED <<users, folders, resources, reviews, files>>

\* register from its insert on
RegisterCommit(sid) ==
  /\ \E plan \in pending :
       /\ plan.sid = sid
       /\ CommitUser(plan)
       /\ pending' = pending \ {plan}
  /\ UNCHANGED <<folders, resources, reviews, files>>

NextAuth ==
  \/ \E sid \in 1..MaxPending, rawName \in RawNames, rawEmail \in RawEmails, password \in RawPasswords :
       RegisterRead(sid, rawName, rawEmail, password)
  \/ \E sid \in 1..MaxPending : RegisterCommit(sid)

SpecAuth == Init /\ [][NextAuth]_vars

\* the accounts of the specifications that are not about registration
RegisterAccount ==
  /\ NextId(users) <= Len(Accounts)
  /\ Register(Accounts[NextId(users)].name, Accounts[NextId(users)].email, <<"p">>)

\* -------------------------------------------------------- Routes: Explorer
\* the lookup with its owner_id filter dropped
FolderOfAnyOwner(user, folder_id) ==
  {f \in folders : f.id = folder_id}

\* Folder.query.filter_by(id=folder_id, owner_id=current_user.id)
OwnedFolder(user, folder_id) ==
  {f \in folders : f.id = folder_id /\ f.owner_id = user}

\* folder.children: the rows whose parent_id is the folder's id
Children(folder_id) == {f \in folders : f.parent_id = folder_id}

\* folder.resources: the rows whose folder_id is the folder's id
FolderResources(folder_id) == {r \in resources : r.folder_id = folder_id}

\* folder.parent: the row the parent_id names, None when it is NULL or names no row
Parent(folder_id) ==
  IF \E f \in folders : f.id = folder_id /\ \E g \in folders : g.id = f.parent_id
    THEN (CHOOSE f \in folders : f.id = folder_id).parent_id
    ELSE None

\* the value of `folder` in get_breadcrumbs after n iterations of its loop
RECURSIVE LoopFolder(_, _)
LoopFolder(folder_id, n) ==
  IF n = 0 \/ folder_id = None THEN folder_id ELSE LoopFolder(Parent(folder_id), n - 1)

\* the loop of get_breadcrumbs ends: it visits existing folders only, so a
\* walk that is still on a folder after more iterations than there are
\* folders has entered a cycle and never leaves it
BreadcrumbsTerminate(folder_id) ==
  LoopFolder(folder_id, Cardinality(folders) + 1) = None

\* crumbs as appended by the loop (leaf first), when it ends
RECURSIVE Crumbs(_, _)
Crumbs(folder_id, n) ==
  IF n = 0 \/ folder_id = None THEN <<>> ELSE <<folder_id>> \o Crumbs(Parent(folder_id), n - 1)

Reversed(s) == [i \in 1..Len(s) |-> s[Len(s) + 1 - i]]

get_breadcrumbs(folder_id) == Reversed(Crumbs(folder_id, Cardinality(folders) + 1))

Dashboard(user) ==
  /\ resp' = Listing("dashboard", user, None, "ok",
                     {f.id : f \in {g \in folders : g.owner_id = user /\ g.parent_id = None}},
                     {r.id : r \in {q \in resources : q.uploader_id = user /\ q.folder_id = None}},
                     <<>>)
  /\ UNCHANGED <<users, folders, resources, reviews, files, pending>>

FolderView(user, folder_id) ==
  /\ IF OwnedFolder(user, folder_id) = {}
       THEN resp' = Listing("folder_view", user, folder_id, "NotFound", {}, {}, <<>>)
       ELSE IF BreadcrumbsTerminate(folder_id)
         THEN resp' = Listing("folder_view", user, folder_id, "ok",
                              {f.id : f \in Children(folder_id)},
                              {r.id : r \in FolderResources(folder_id)},
                              get_breadcrumbs(folder_id))
         ELSE \* get_breadcrumbs loops for ever: the request never gets a response
              resp' = Listing("folder_view", user, folder_id, "NoResponse", {}, {}, <<>>)
  /\ UNCHANGED <<users, folders, resources, reviews, files, pending>>

FolderCreate(user, rawName, rawParent) ==
  LET name == Strip(rawName)
  IN  /\ IF name = <<>>
           THEN /\ resp' = Reply("folder_create", user, None, None, "ValidationError")
                /\ UNCHANGED folders
           ELSE /\ Room(folders)
                /\ folders' = folders \cup {[id |-> NextId(folders),
                                             parent_id |-> OrNone(rawParent),
                                             owner_id |-> user]}
                /\ resp' = Reply("folder_create", user, NextId(folders), None, "ok")
      /\ UNCHANGED <<users, resources, reviews, files, pending>>

\* the emptiness test with its resources disjunct dropped
HasChildFolders(folder_id) ==
  \E f \in folders : f.parent_id = folder_id

\* `folder.children or folder.resources`
HasContents(folder_id) ==
  Children(folder_id) # {} \/ FolderResources(folder_id) # {}

FolderDelete(user, folder_id) ==
  /\ IF OwnedFolder(user, folder_id) = {}
       THEN /\ resp' = Reply("folder_delete", user, folder_id, None, "NotFound")
            /\ UNCHANGED folders
       ELSE IF HasContents(folder_id)
         THEN /\ resp' = Reply("folder_delete", user, folder_id, None, "NotEmpty")
              /\ UNCHANGED folders
         ELSE /\ folders' = folders \ OwnedFolder(user, folder_id)
              /\ resp' = Reply("folder_delete", user, folder_id, None, "ok")
  /\ UNCHANGED <<users, resources, reviews, files, pending>>

\* ------------------------------------------------- Routes: Upload & Files
\* '.' in filename and filename.rsplit('.', 1)[1].lower() in ALLOWED_EXTENSIONS
allowed_file(filename) ==
  /\ \E i \in 1..Len(filename) : filename[i] = "."
  /\ LowerChar(filename[Len(filename)]) \in ALLOWED_EXTENSIONS

\* secure_filename(f"{timestamp}_{file.filename}")
StoredName(stamp, filename) == <<stamp, "_">> \o filename

Upload(user, rawFolder, file, stamp) ==
  /\ IF file = <<>>
       THEN /\ resp' = Reply("upload", user, None, None, "NoFile")
            /\ UNCHANGED <<resources, files>>
       ELSE IF ~allowed_file(file)
         THEN /\ resp' = Reply("upload", user, None, None, "UnsupportedType")
              /\ UNCHANGED <<resources, files>>
         ELSE /\ Room(resources)
              /\ files' = files \cup {StoredName(stamp, file)}
              /\ resources' = resources \cup {[id |-> NextId(resources),
                                               uploader_id |-> user,
                                               folder_id |-> OrNone(rawFolder),
                                               filename |-> StoredName(stamp, file)]}
              /\ resp' = Reply("upload", user, NextId(resources), None, "ok")
  /\ UNCHANGED <<users, folders, reviews, pending>>

\* Resource.query.get(resource_id)
GetResource(resource_id) == {r \in resources : r.id = resource_id}

\* res.reviews, deleted with the resource (cascade="all, delete-orphan")
ResourceReviews(resource_id) == {v \in reviews : v.resource_id = resource_id}

ResourceDelete(user, resource_id) ==
  /\ IF GetResource(resource_id) = {}
       THEN /\ resp' = Reply("resource_delete", user, resource_id, None, "NotFound")
            /\ UNCHANGED <<resources, reviews, files>>
       ELSE LET res == CHOOSE r \in GetResource(resource_id) : TRUE
            IN  IF res.uploader_id # user
                  THEN /\ resp' = Reply("resource_delete", user, resource_id, None, "Forbidden")
                       /\ UNCHANGED <<resources, reviews, files>>
                  ELSE /\ files' = files \ {res.filename}
                       /\ resources' = resources \ {res}
                       /\ reviews' = reviews \ ResourceReviews(resource_id)
                       /\ resp' = Reply("resource_delete", user, resource_id, None, "ok")
  /\ UNCHANGED <<users, folders, pending>>

\* ids a client can put in a URL or a form field
Ids == 1..MaxId

\* the forms a client sends: one blank folder name and the well-formed ones
FolderForms ==
  {<<(<<" ">>), Blank>>} \cup {<<(<<"d">>), p>> : p \in {Blank} \cup Ids}

\* one request without a file, one with a refused type, and the accepted ones
UploadForms ==
  {<<Blank, (<<>>)>>, <<Blank, (<<"payload", ".", "exe">>)>>}
    \cup {<<f, (<<"notes", ".", "PDF">>)>> : f \in {Blank} \cup Ids}

NextFolders ==
  \/ RegisterAccount
  \/ \E user \in LoggedIn : Dashboard(user)
  \/ \E user \in LoggedIn, folder_id \in Ids : FolderView(user, folder_id)
  \/ \E user \in LoggedIn, form \in FolderForms : FolderCreate(user, form[1], form[2])
  \/ \E user \in LoggedIn, folder_id \in Ids : FolderDelete(user, folder_id)
  \/ \E user \in LoggedIn, form \in UploadForms, stamp \in Stamps :
       Upload(user, form[1], form[2], stamp)
  \/ \E user \in LoggedIn, resource_id \in Ids : ResourceDelete(user, resource_id)

SpecFolders == Init /\ [][NextFolders]_vars

\* ------------------------------------------------ Routes: Review & Rating
Max2(a, b) == IF a >= b THEN a ELSE b

Min2(a, b) == IF a <= b THEN a ELSE b

\* the clamp with its lower limit dropped
ClampAbove(rating) == Min2(10, rating)

\* rating = max(1, min(10, rating))
Clamp(rating) == Max2(1, Min2(10, rating))

\* Review.query.filter_by(user_id=current_user.id, resource_id=res.id).first():
\* the id of the row found, None when there is none
ExistingReview(user, resource_id) ==
  LET found == {v.id : v \in {w \in reviews : w.user_id = user /\ w.resource_id = resource_id}}
  IN  IF found = {} THEN None ELSE CHOOSE i \in found : \A j \in found : i <= j

\* what a request holds once it has read the store, before db.session.commit()
ReviewPlan(sid, user, resource_id, raw) ==
  [sid |-> sid, user |-> user, rid |-> resource_id, val |-> raw,
   rating |-> Clamp(raw), existing |-> ExistingReview(user, resource_id)]

\* uix_user_resource, checked by the store when a row is inserted
UniqueViolation(user, resource_id) ==
  \E v \in reviews : v.user_id = user /\ v.resource_id = resource_id

\* line 259 reads res.id after the commit: the commit expired `res`, so the
\* read reloads its row and raises ObjectDeletedError when the row is gone
AfterCommit(resource_id) ==
  IF GetResource(resource_id) = {} THEN "ObjectDeletedError" ELSE "ok"

\* db.session.commit() of a plan: UPDATE of the row read, or INSERT of a new
\* one; an error raised by the flush is not caught by the handler
CommitReview(plan) ==
  IF plan.existing # None
    THEN IF \E v \in reviews : v.id = plan.existing
           THEN /\ reviews' = {IF v.id = plan.existing THEN [v EXCEPT !.rating = plan.rating] ELSE v
                                 : v \in reviews}
                /\ resp' = Reply("submit_review", plan.user, plan.rid, plan.val, AfterCommit(plan.rid))
           ELSE \* the row is gone: StaleDataError
                /\ resp' = Reply("submit_review", plan.user, plan.rid, plan.val, "StaleDataError")
                /\ UNCHANGED reviews
    ELSE IF UniqueViolation(plan.user, plan.rid)
           THEN \* IntegrityError
                /\ resp' = Reply("submit_review", plan.user, plan.rid, plan.val, "IntegrityError")
                /\ UNCHANGED reviews
           ELSE /\ Room(reviews)
                /\ reviews' = reviews \cup {[id |-> NextId(reviews), user_id |-> plan.user,
                                             resource_id |-> plan.rid, rating |-> plan.rating]}
                /\ resp' = Reply("submit_review", plan.user, plan.rid, plan.val, AfterCommit(plan.rid))

\* a request handled with no other request in between
SubmitReview(user, resource_id, raw) ==
  /\ IF GetResource(resource_id) = {}
       THEN /\ resp' = Reply("submit_review", user, resource_id, raw, "NotFound")
            /\ UNCHANGED reviews
       ELSE CommitReview(ReviewPlan(0, user, resource_id, raw))
  /\ UNCHANGED <<users, folders, resources, files, pending>>

ReviewForms == {f \in UploadForms : f[1] = Blank}

NextReviews ==
  \/ RegisterAccount
  \/ \E user \in LoggedIn, form \in ReviewForms, stamp \in Stamps :
       Upload(user, form[1], form[2], stamp)
  \/ \E user \in LoggedIn, resource_id \in Ids : ResourceDelete(user, resource_id)
  \/ \E user \in LoggedIn, resource_id \in Ids, raw \in RawRatings :
       SubmitReview(user, resource_id, raw)

SpecReviews == Init /\ [][NextReviews]_vars

\* ------------------------------------------------- overlapping requests
\* lines 247-251: the reads of submit_review
SubmitReviewRead(sid, user, resource_id, raw) ==
  /\ sid \in FreeSlots
  /\ IF GetResource(resource_id) = {}
       THEN /\ resp' = Reply("submit_review", user, resource_id, raw, "NotFound")
            /\ UNCHANGED pending
       ELSE /\ pending' = pending \cup {ReviewPlan(sid, user, resource_id, raw)}
            /\ UNCHANGED resp
  /\ UNCHANGED <<users, folders, resources, reviews, files>>

\* lines 252-259: the write and the commit of submit_review
SubmitReviewCommit(sid) ==
  /\ \E plan \in pending :
       /\ plan.sid = sid
       /\ CommitReview(plan)
       /\ pending' = pending \ {plan}
  /\ UNCHANGED <<users, folders, resources, files>>

\* the ratings sent by the overlapping requests
RaceRatings == {3, 9}

NextRace ==
  \/ RegisterAccount
  \/ \E user \in LoggedIn, form \in ReviewForms, stamp \in Stamps :
       Upload(user, form[1], form[2], stamp)
  \/ \E user \in LoggedIn, resource_id \in Ids : ResourceDelete(user, resource_id)
  \/ \E sid \in 1..MaxPending, user \in LoggedIn, resource_id \in Ids, raw \in RaceRatings :
       SubmitReviewRead(sid, user, resource_id, raw)
  \/ \E sid \in 1..MaxPending : SubmitReviewCommit(sid)

SpecRace == Init /\ [][NextRace]_vars

\* ============================================================== properties
UserIds == {x.id : x \in users}

ReviewsOf(revs, user, resource_id) ==
  {v \in revs : v.user_id = user /\ v.resource_id = resource_id}

\* the rating the store must hold for a submitted rating
Stored(raw) == IF raw > 10 THEN 10 ELSE IF raw < 1 THEN 1 ELSE raw

OneReviewPerPair ==
  \A user \in UserIds, resource_id \in Ids :
    Cardinality(ReviewsOf(reviews, user, resource_id)) <= 1

C2_RaceHandledGracefully ==
  /\ OneReviewPerPair
  /\ resp.op = "submit_review" => resp.status # "IntegrityError"

\* two stored users never share a username (trimmed, case kept) or an email
\* (trimmed, lowercased)
UniqueIdentities ==
  \A x, y \in users :
    x # y => /\ Strip(x.username) # Strip(y.username)
             /\ Lower(Strip(x.email)) # Lower(Strip(y.email))

\* the username or the email of the form belongs to a stored user
BelongsToUser(rawName, rawEmail) ==
  \E x \in users : x.username = Strip(rawName) \/ x.email = Lower(Strip(rawEmail))

\* C3 as stated: stored users never share a username or an email, and a
\* register request whose username or email belongs to a stored user fails
\* with DuplicateIdentity and leaves the users unchanged, whatever its other
\* fields are.
C3_DuplicateIdentityWhateverTheOtherFields ==
  /\ []UniqueIdentities
  /\ [][\A sid \in 1..MaxPending, rawName \in RawNames, rawEmail \in RawEmails, password \in RawPasswords :
          (RegisterRead(sid, rawName, rawEmail, password) /\ BelongsToUser(rawName, rawEmail))
            => (resp'.status = "DuplicateIdentity" /\ users' = users)
       ]_vars

\* C3 amended: stored users never share a username or an email, and a
\* register request with no blank field whose username or email belongs to a
\* stored user fails with DuplicateIdentity and leaves the users unchanged;
\* with a blank field it fails with ValidationError, the users unchanged too.
C3_DuplicateIdentityWhenNoFieldIsBlank ==
  /\ []UniqueIdentities
  /\ [][\A sid \in 1..MaxPending, rawName \in RawNames, rawEmail \in RawEmails, password \in RawPasswords :
          (RegisterRead(sid, rawName, rawEmail, password) /\ BelongsToUser(rawName, rawEmail))
            => /\ users' = users
               /\ pending' = pending
               /\ resp'.op = "register"
               /\ IF Strip(rawName) = <<>> \/ Strip(rawEmail) = <<>> \/ password = <<>>
                    THEN resp'.status = "ValidationError"
                    ELSE resp'.status = "DuplicateIdentity"
       ]_vars

\* C3 witness: a register request was refused with DuplicateIdentity while
\* two users are stored.
C3_Witness ==
  /\ resp.op = "register"
  /\ resp.status = "DuplicateIdentity"
  /\ Cardinality(users) = 2

\* C4: a folder_delete by the folder's owner is refused with NotEmpty, the
\* folders and resources unchanged, when a folder or a resource refers to the
\* folder; otherwise exactly that folder is removed, so that no listing shows
\* it any more.
C4_DeleteOnlyEmptyFolders ==
  [][\A f \in folders :
       (resp'.op = "folder_delete" /\ resp'.arg = f.id /\ resp'.user = f.owner_id)
         => IF \/ \E g \in folders : g.parent_id = f.id
               \/ \E r \in resources : r.folder_id = f.id
              THEN /\ resp'.status = "NotEmpty"
                   /\ folders' = folders
                   /\ resources' = resources
              ELSE /\ resp'.status = "ok"
                   /\ folders' = folders \ {f}
                   /\ resources' = resources
                   /\ \A g \in folders' : g.id # f.id
    ]_vars

\* C4 witness: the owner's folder_delete was just refused with NotEmpty for a
\* folder that holds a resource and no child folder.
C4_Witness ==
  /\ resp.op = "folder_delete"
  /\ resp.status = "NotEmpty"
  /\ \E f \in folders : f.id = resp.arg /\ f.owner_id = resp.user
  /\ \E r \in resources : r.folder_id = resp.arg
  /\ ~ \E g \in folders : g.parent_id = resp.arg

\* C5: a folder_view or folder_delete by a user for a folder of another
\* owner is answered NotFound, as for an id that names no folder, with no
\* folder, resource or breadcrumb in the response, and changes nothing.
C5_ForeignFolderIsNotFound ==
  [][(/\ resp'.op \in {"folder_view", "folder_delete"}
      /\ ~ \E f \in folders : f.id = resp'.arg /\ f.owner_id = resp'.user)
       => /\ resp'.status = "NotFound"
          /\ resp'.out = {}
          /\ resp'.res = {}
          /\ resp'.crumbs = <<>>
          /\ UNCHANGED <<users, folders, resources, reviews, files, pending>>
    ]_vars

\* C5 witness: a folder_view was just answered NotFound for a folder that
\* exists, belongs to another user and has a child folder.
C5_Witness ==
  /\ resp.op = "folder_view"
  /\ resp.status = "NotFound"
  /\ \E f \in folders :
       /\ f.id = resp.arg
       /\ f.owner_id # resp.user
       /\ \E g \in folders : g.parent_id = f.id

\* C6: no Review refers to a resource that is not in the catalog.
C6_NoReviewOfDeletedResource ==
  \A v \in reviews : \E r \in resources : r.id = v.resource_id

\* C7: every folder whose parent is set has the owner of its parent folder.
C7_ParentHasSameOwner ==
  \A f, g \in folders : f.parent_id = g.id => f.owner_id = g.owner_id

\* C8: every folder listed by the dashboard or by folder_view is owned by the
\* user the listing is for.
C8_ListingsScopedToOwner ==
  (resp.op \in {"dashboard", "folder_view"})
    => \A id \in resp.out : \A f \in folders : f.id = id => f.owner_id = resp.user

\* C9: the folder graph is acyclic, so get_breadcrumbs ends for every folder,
\* and the breadcrumbs of a viewed folder end with that folder.
C9_FolderGraphAcyclic ==
  /\ \A f \in folders : BreadcrumbsTerminate(f.id)
  /\ resp.op = "folder_view" => resp.status # "NoResponse"
  /\ (resp.op = "folder_view" /\ resp.status = "ok")
       => (resp.crumbs # <<>> /\ resp.crumbs[Len(resp.crumbs)] = resp.arg)

\* C10: every parent_id of a folder and every folder_id of a resource, when
\* set, names a folder that exists.
C10_FolderReferencesExist ==
  /\ \A f \in folders : f.parent_id # None => \E g \in folders : g.id = f.parent_id
  /\ \A r \in resources : r.folder_id # None => \E g \in folders : g.id = r.folder_id

====
